---- MODULE Spec2Model ----
(***************************************************************************)
(* The AQI engine of appcopy.py: unit normalisation of the six pollutant   *)
(* readings, breakpoint interpolation (calculate_pollutant_aqi), the       *)
(* worst-pollutant aggregation, and the AirNow category lookup             *)
(* (get_airnow_aqi_info).                                                  *)
(*                                                                         *)
(* Numbers.                                                                *)
(*   - a raw reading (ug/m3) is a decimal with RawScale-ths, held as the   *)
(*     integer count of 1/RawScale ug/m3; the code reads it as the nearest *)
(*     double;                                                             *)
(*   - the normalisation of lines 110-118 is computed in doubles, as the   *)
(*     code computes it: every product and quotient is rounded to 53 bits  *)
(*     (round-half-to-even) before int() drops the fraction;               *)
(*   - a concentration is an integer count of 1/Sub of the pollutant's     *)
(*     truncation step (0.001 ppm for O3, 0.1 for PM2.5 and CO, 1 for      *)
(*     PM10, SO2, NO2), so a normalised concentration is a multiple of     *)
(*     Sub and the values in between are the concentrations that lie       *)
(*     between two representable steps;                                    *)
(*   - Python's round() is round-half-to-even; the interpolated value is   *)
(*     never close enough to a half for the double to round differently    *)
(*     from the exact quotient, which the model uses.                      *)
(***************************************************************************)
EXTENDS Integers, Sequences, FiniteSets

\* Sub-steps per truncation step of a concentration.
Sub == 3

\* How far below 0 and above the top bracket direct calls are explored,
\* in sub-steps.
MaxBelow == 12
MaxAbove == 90

\* Largest AQI value looked up directly.
MaxAqi == 10060

\* Raw readings carry two decimals (the page prints them with :.2f).
RawScale == 100

(***************************************************************************)
(* Constant tables                                                         *)
(***************************************************************************)

\* AIRNOW_AQI_GUIDE, lines 25-32 (the description text is left out).
AIRNOW_AQI_GUIDE ==
  << [range |-> <<0, 50>>,      level |-> "Good",                           color |-> "#00e400"],
     [range |-> <<51, 100>>,    level |-> "Moderate",                       color |-> "#ffff00"],
     [range |-> <<101, 150>>,   level |-> "Unhealthy for Sensitive Groups", color |-> "#ff7e00"],
     [range |-> <<151, 200>>,   level |-> "Unhealthy",                      color |-> "#ff0000"],
     [range |-> <<201, 300>>,   level |-> "Very Unhealthy",                 color |-> "#8f3f97"],
     [range |-> <<301, 10000>>, level |-> "Hazardous",                      color |-> "#7e0023"] >>

\* The keys of aqi_v in insertion order, lines 120-122.
PollutantKeys == <<"o3_ppm", "pm2_5", "pm10", "co_ppm", "so2_ppb", "no2_ppb">>

KeySet == {PollutantKeys[i] : i \in 1..Len(PollutantKeys)}

\* BREAKPOINTS, lines 42-49; bp_low and bp_hi in truncation steps of the
\* pollutant (0.054 ppm is 54, 35.4 ug/m3 is 354).
BREAKPOINTS ==
  [o3_ppm  |-> << <<0,54,0,50>>, <<55,70,51,100>>, <<71,85,101,150>>,
                  <<86,105,151,200>>, <<106,200,201,300>>, <<201,404,301,400>> >>,
   pm2_5   |-> << <<0,90,0,50>>, <<91,354,51,100>>, <<355,554,101,150>>,
                  <<555,1254,151,200>>, <<1255,2254,201,300>>, <<2255,3254,301,400>> >>,
   pm10    |-> << <<0,54,0,50>>, <<55,154,51,100>>, <<155,254,101,150>>,
                  <<255,354,151,200>>, <<355,424,201,300>>, <<425,504,301,400>> >>,
   co_ppm  |-> << <<0,44,0,50>>, <<45,94,51,100>>, <<95,124,101,150>>,
                  <<125,154,151,200>>, <<155,304,201,300>>, <<305,404,301,400>> >>,
   so2_ppb |-> << <<0,35,0,50>>, <<36,75,51,100>>, <<76,185,101,150>>,
                  <<186,304,151,200>>, <<305,604,201,300>>, <<605,804,301,400>> >>,
   no2_ppb |-> << <<0,53,0,50>>, <<54,100,51,100>>, <<101,360,101,150>>,
                  <<361,649,151,200>>, <<650,1249,201,300>>, <<1250,1649,301,400>> >>]

(***************************************************************************)
(* Doubles                                                                 *)
(*                                                                         *)
(* A double is [neg, m, e] and stands for (-1)^neg * m * 2^e, where m is 0 *)
(* or has exactly 53 bits.  m is a natural number written as a sequence of *)
(* limbs, least significant first, in base Limb, without leading zeros.    *)
(* The magnitudes of lines 107-118 stay far from the subnormal and the     *)
(* overflow range, so the exponent is unbounded here.                      *)
(***************************************************************************)

Limb == 2^15

RECURSIVE Trim(_)
Trim(x) ==
  IF x = << >> THEN x
  ELSE IF x[Len(x)] = 0 THEN Trim(SubSeq(x, 1, Len(x) - 1)) ELSE x

\* The limbs of n >= 0, and back.
RECURSIVE FromInt(_)
FromInt(n) == IF n = 0 THEN << >> ELSE <<n % Limb>> \o FromInt(n \div Limb)

RECURSIVE ToInt(_)
ToInt(x) == IF x = << >> THEN 0 ELSE x[1] + Limb * ToInt(Tail(x))

\* x * k + carry for 0 <= k, carry < 2 * Limb.
RECURSIVE MulSmall(_, _, _)
MulSmall(x, k, carry) ==
  IF x = << >> THEN FromInt(carry)
  ELSE LET t == x[1] * k + carry
       IN  <<t % Limb>> \o MulSmall(Tail(x), k, t \div Limb)

\* <<x \div k, x % k>> for 0 < k < 2 * Limb.
RECURSIVE DivSmall(_, _)
DivSmall(x, k) ==
  IF x = << >> THEN << << >>, 0 >>
  ELSE LET hi == DivSmall(Tail(x), k)
           t  == hi[2] * Limb + x[1]
       IN  << Trim(<<t \div k>> \o hi[1]), t % k >>

\* x + y + carry.
RECURSIVE Add(_, _, _)
Add(x, y, carry) ==
  IF x = << >> /\ y = << >> THEN FromInt(carry)
  ELSE LET a == IF x = << >> THEN 0 ELSE x[1]
           b == IF y = << >> THEN 0 ELSE y[1]
           t == a + b + carry
       IN  <<t % Limb>> \o Add(IF x = << >> THEN x ELSE Tail(x),
                               IF y = << >> THEN y ELSE Tail(y), t \div Limb)

\* x - y - borrow for x >= y + borrow.
RECURSIVE MinusRaw(_, _, _)
MinusRaw(x, y, borrow) ==
  IF x = << >> THEN << >>
  ELSE LET b == IF y = << >> THEN 0 ELSE y[1]
           t == x[1] - b - borrow
       IN  <<t % Limb>> \o MinusRaw(Tail(x), IF y = << >> THEN y ELSE Tail(y),
                                    IF t < 0 THEN 1 ELSE 0)

Minus(x, y) == Trim(MinusRaw(x, y, 0))

\* -1, 0, 1 as x is less than, equal to, greater than y.
RECURSIVE CmpFrom(_, _, _)
CmpFrom(x, y, i) ==
  IF i = 0 THEN 0
  ELSE IF x[i] < y[i] THEN -1
  ELSE IF x[i] > y[i] THEN 1
  ELSE CmpFrom(x, y, i - 1)

Cmp(x, y) ==
  IF Len(x) < Len(y) THEN -1
  ELSE IF Len(x) > Len(y) THEN 1
  ELSE CmpFrom(x, y, Len(x))

RECURSIVE Mul(_, _)
Mul(x, y) ==
  IF x = << >> \/ y = << >> THEN << >>
  ELSE Trim(Add(MulSmall(x, y[1], 0), <<0>> \o Mul(x, Tail(y)), 0))

RECURSIVE Bits(_)
Bits(n) == IF n = 0 THEN 0 ELSE 1 + Bits(n \div 2)

\* The number of bits of x.
BitLen(x) == IF x = << >> THEN 0 ELSE 15 * (Len(x) - 1) + Bits(x[Len(x)])

\* x * 2^n and x \div 2^n.
Shl(x, n) ==
  IF x = << >> THEN x
  ELSE [i \in 1..(n \div 15) |-> 0] \o MulSmall(x, 2^(n % 15), 0)

Shr(x, n) ==
  IF n \div 15 >= Len(x) THEN << >>
  ELSE DivSmall(SubSeq(x, n \div 15 + 1, Len(x)), 2^(n % 15))[1]

Zero == [neg |-> FALSE, m |-> << >>, e |-> 0]

\* The double nearest to (N + f) * 2^e, where 0 <= f < 1 and sticky tells
\* whether f > 0: 53 bits are kept and a half goes to the even neighbour.
Round53(neg, N, e, sticky) ==
  IF N = << >> THEN Zero
  ELSE LET L == BitLen(N)
       IN  IF L <= 53 THEN [neg |-> neg, m |-> Shl(N, 53 - L), e |-> e - (53 - L)]
           ELSE LET sh   == L - 53
                    q1   == Shr(N, sh - 1)
                    q    == DivSmall(q1, 2)[1]
                    half == q1[1] % 2 = 1
                    low  == sticky \/ Shl(q1, sh - 1) # N
                    up   == half /\ (low \/ q[1] % 2 = 1)
                    r    == IF up THEN Add(q, <<1>>, 0) ELSE q
                IN  IF BitLen(r) > 53
                    THEN [neg |-> neg, m |-> DivSmall(r, 2)[1], e |-> e + sh + 1]
                    ELSE [neg |-> neg, m |-> r, e |-> e + sh]

\* The double of the decimal n / d (a literal such as 24.45, or a reading),
\* for 0 < d < Limb.
Float(n, d) ==
  LET a  == IF n < 0 THEN -n ELSE n
      dm == DivSmall(Shl(FromInt(a), 75), d)
  IN  Round53(n < 0, dm[1], -75, dm[2] # 0)

\* x * y in doubles.
FMul(x, y) ==
  IF x.m = << >> \/ y.m = << >> THEN Zero
  ELSE Round53(x.neg # y.neg, Mul(x.m, y.m), x.e + y.e, FALSE)

\* The two leading limbs of a 53-bit number.
Lead(x) == (IF Len(x) >= 3 THEN x[3] ELSE 0) + Limb * (IF Len(x) >= 4 THEN x[4] ELSE 0)

\* n further base-256 digits of the quotient Q of a division by D, for a
\* remainder R < D and a 53-bit D: the digit is estimated from the leading
\* limbs, which is off by at most 1, and then settled by comparison.
RECURSIVE LongDiv(_, _, _, _)
LongDiv(Q, R, D, n) ==
  IF n = 0 THEN <<Q, R>>
  ELSE LET R2  == MulSmall(R, 256, 0)
           est == (Lead(R) * 256) \div Lead(D)
           q   == IF Cmp(MulSmall(D, est + 1, 0), R2) <= 0 THEN est + 1
                  ELSE IF Cmp(Trim(MulSmall(D, est, 0)), R2) <= 0 THEN est
                  ELSE est - 1
       IN  LongDiv(MulSmall(Q, 256, q), Minus(R2, Trim(MulSmall(D, q, 0))), D, n - 1)

\* x / y in doubles, y # 0: 56 or 57 bits of the quotient of the mantissas
\* and whether a remainder is left, rounded to 53 bits.
FDiv(x, y) ==
  IF x.m = << >> THEN Zero
  ELSE LET ge == Cmp(x.m, y.m) >= 0
           dm == LongDiv(IF ge THEN <<1>> ELSE << >>,
                         IF ge THEN Minus(x.m, y.m) ELSE x.m, y.m, 7)
       IN  Round53(x.neg # y.neg, dm[1], x.e - y.e - 56, dm[2] # << >>)

\* Molar masses and molar volume, lines 68-69.
MW_O3 == Float(4800, 100)
MW_CO == Float(2801, 100)
MW_SO2 == Float(6407, 100)
MW_NO2 == Float(4601, 100)
MOLAR_VOLUME == Float(2445, 100)

(***************************************************************************)
(* Arithmetic                                                              *)
(***************************************************************************)

MinOf(S) == CHOOSE x \in S : \A y \in S : x <= y

\* int(x) of a double: the fraction is dropped, toward zero.
int(x) ==
  LET mag == IF x.m = << >> THEN 0
             ELSE IF x.e >= 0 THEN ToInt(Shl(x.m, x.e))
             ELSE ToInt(Shr(x.m, -x.e))
  IN  IF x.neg THEN -mag ELSE mag

\* Variant of round: drops the fraction.
round_floor_mutant(num, den) == num \div den

\* round(num / den) for den > 0: Python 3 rounds halves to the even integer.

round(num, den) ==
  LET q == num \div den
      r == num % den
  IN  IF 2 * r < den THEN q
      ELSE IF 2 * r > den THEN q + 1
      ELSE IF q % 2 = 0 THEN q ELSE q + 1

(***************************************************************************)
(* get_airnow_aqi_info, lines 34-40                                        *)
(***************************************************************************)

\* low <= aqi_value <= high, line 38.
InRange(category, aqi_value) ==
  category.range[1] <= aqi_value /\ aqi_value <= category.range[2]

\* Variant of get_airnow_aqi_info: no fallback to the last category.
get_airnow_aqi_info_none_mutant(aqi_value) ==
  LET hits == {i \in 1..Len(AIRNOW_AQI_GUIDE) : InRange(AIRNOW_AQI_GUIDE[i], aqi_value)}
  IN  IF hits # {} THEN AIRNOW_AQI_GUIDE[MinOf(hits)]
      ELSE [range |-> <<0, 0>>, level |-> "N/A", color |-> "#000000"]

\* Variant of get_airnow_aqi_info: the upper end of a range is not tested.
get_airnow_aqi_info_last_mutant(aqi_value) ==
  LET hits == {i \in 1..Len(AIRNOW_AQI_GUIDE) : AIRNOW_AQI_GUIDE[i].range[1] <= aqi_value}
  IN  IF hits # {} THEN AIRNOW_AQI_GUIDE[MinOf(hits)]
      ELSE AIRNOW_AQI_GUIDE[Len(AIRNOW_AQI_GUIDE)]

\* The first category whose range holds aqi_value, else the last category.
get_airnow_aqi_info(aqi_value) ==
  LET hits == {i \in 1..Len(AIRNOW_AQI_GUIDE) : InRange(AIRNOW_AQI_GUIDE[i], aqi_value)}
  IN  IF hits # {} THEN AIRNOW_AQI_GUIDE[MinOf(hits)]
      ELSE AIRNOW_AQI_GUIDE[Len(AIRNOW_AQI_GUIDE)]

(***************************************************************************)
(* calculate_pollutant_aqi, lines 52-66                                    *)
(***************************************************************************)

\* Variant of InBracket: bp_hi is excluded.
InBracket_open_mutant(row, concentration) ==
  row[1] * Sub <= concentration /\ concentration < row[2] * Sub

\* bp_low <= concentration <= bp_hi, line 57.

InBracket(row, concentration) ==
  row[1] * Sub <= concentration /\ concentration <= row[2] * Sub

\* round(((i_hi - i_low) / (bp_hi - bp_low)) * (concentration - bp_low) + i_low),
\* lines 59-60 and 64-65.
Linear(row, concentration) ==
  round((row[4] - row[3]) * (concentration - row[1] * Sub) + row[3] * (row[2] - row[1]) * Sub,
        (row[2] - row[1]) * Sub)

\* Lines 58-60: the value inside a bracket.
Inside(row, concentration) ==
  IF row[2] - row[1] = 0 THEN row[3] ELSE Linear(row, concentration)

\* Variant of Above: capped at the last bracket's index_high.
Above_clamp_mutant(row, concentration) == row[4]

\* Lines 63-65: the value above the last bracket.

Above(row, concentration) ==
  IF row[2] - row[1] = 0 THEN row[4] ELSE Linear(row, concentration)

\* Variant of calculate_pollutant_aqi: no guard for a negative concentration,
\* the first bracket's line is continued below 0.
calculate_pollutant_aqi_below_mutant(pollutant_key, concentration) ==
  IF pollutant_key \notin DOMAIN BREAKPOINTS THEN 0
  ELSE LET breakpoints == BREAKPOINTS[pollutant_key]
           hits == {i \in 1..Len(breakpoints) : InBracket(breakpoints[i], concentration)}
           last == breakpoints[Len(breakpoints)]
       IN  IF hits # {} THEN Inside(breakpoints[MinOf(hits)], concentration)
           ELSE IF concentration > last[2] * Sub THEN Above(last, concentration)
           ELSE IF concentration < 0 THEN Linear(breakpoints[1], concentration)
           ELSE 0

\* Lines 52-66: 0 for a negative concentration or an unknown key, the first
\* bracket that holds the concentration, the last bracket's line above it,
\* and 0 when nothing matched.
calculate_pollutant_aqi(pollutant_key, concentration) ==
  IF concentration < 0 THEN 0
  ELSE IF pollutant_key \notin DOMAIN BREAKPOINTS THEN 0
  ELSE LET breakpoints == BREAKPOINTS[pollutant_key]
           hits == {i \in 1..Len(breakpoints) : InBracket(breakpoints[i], concentration)}
           last == breakpoints[Len(breakpoints)]
       IN  IF hits # {} THEN Inside(breakpoints[MinOf(hits)], concentration)
           ELSE IF concentration > last[2] * Sub THEN Above(last, concentration)
           ELSE 0

(***************************************************************************)
(* The script body, lines 105-126 and 147-148                              *)
(***************************************************************************)

\* components.get(name, 0), lines 107-108.
Get(components, name) ==
  IF name \in DOMAIN components THEN components[name] ELSE 0

\* Lines 107-118: the readings as doubles, the conversion of the gases to
\* ppm / ppb in doubles, and the truncation of every reading to its step by
\* int(); the result counts sub-steps (the division by 1000.0 or 10.0 that
\* follows int() is the choice of the step as unit).
Normalize(components) ==
  LET o3_v   == Float(Get(components, "o3"), RawScale)
      pm25_v == Float(Get(components, "pm2_5"), RawScale)
      pm10_v == Float(Get(components, "pm10"), RawScale)
      co_v   == Float(Get(components, "co"), RawScale)
      so2_v  == Float(Get(components, "so2"), RawScale)
      no2_v  == Float(Get(components, "no2"), RawScale)
      o3_raw_ppm  == FDiv(FMul(o3_v, MOLAR_VOLUME), FMul(MW_O3, Float(1000, 1)))
      co_raw_ppm  == FDiv(FMul(co_v, MOLAR_VOLUME), FMul(MW_CO, Float(1000, 1)))
      so2_raw_ppb == FDiv(FMul(so2_v, MOLAR_VOLUME), MW_SO2)
      no2_raw_ppb == FDiv(FMul(no2_v, MOLAR_VOLUME), MW_NO2)
  IN  [o3_c   |-> Sub * int(FMul(o3_raw_ppm, Float(1000, 1))),
       pm25_c |-> Sub * int(FMul(pm25_v, Float(10, 1))),
       pm10_c |-> Sub * int(pm10_v),
       co_c   |-> Sub * int(FMul(co_raw_ppm, Float(10, 1))),
       so2_c  |-> Sub * int(so2_raw_ppb),
       no2_c  |-> Sub * int(no2_raw_ppb)]

\* Lines 120-122: the dict aqi_v.
SubIndices(c) ==
  [o3_ppm  |-> calculate_pollutant_aqi("o3_ppm", c.o3_c),
   pm2_5   |-> calculate_pollutant_aqi("pm2_5", c.pm25_c),
   pm10    |-> calculate_pollutant_aqi("pm10", c.pm10_c),
   co_ppm  |-> calculate_pollutant_aqi("co_ppm", c.co_c),
   so2_ppb |-> calculate_pollutant_aqi("so2_ppb", c.so2_c),
   no2_ppb |-> calculate_pollutant_aqi("no2_ppb", c.no2_c)]

\* Variant of max_values: the smallest value.
max_values_min_mutant(d) ==
  CHOOSE x \in {d[k] : k \in DOMAIN d} : \A k \in DOMAIN d : x <= d[k]

\* max(aqi_v.values()), line 123.

max_values(d) ==
  CHOOSE x \in {d[k] : k \in DOMAIN d} : \A k \in DOMAIN d : x >= d[k]

\* Variant of max_key: the last key whose value is the largest.
max_key_last_mutant(d) ==
  LET best == {i \in 1..Len(PollutantKeys) :
                 \A j \in 1..Len(PollutantKeys) : d[PollutantKeys[i]] >= d[PollutantKeys[j]]}
  IN  PollutantKeys[CHOOSE i \in best : \A j \in best : i >= j]

\* max(aqi_v, key=aqi_v.get), line 148: the first key, in insertion order,
\* whose value is the largest.
max_key(d) ==
  LET best == {i \in 1..Len(PollutantKeys) :
                 \A j \in 1..Len(PollutantKeys) : d[PollutantKeys[i]] >= d[PollutantKeys[j]]}
  IN  PollutantKeys[MinOf(best)]

(***************************************************************************)
(* State                                                                   *)
(***************************************************************************)

VARIABLES
  pc,                      \* where the script run stands
  components,              \* air_data['list'][0]['components'], line 106
  conc,                    \* o3_c, pm25_c, pm10_c, co_c, so2_c, no2_c
  aqi_v,                   \* line 120
  overall_aqi,             \* line 123
  airnow_info,             \* line 126
  dominant_pollutant_key,  \* line 148
  call,                    \* a direct call of one of the two functions
  ret                      \* and its return value

vars == <<pc, components, conc, aqi_v, overall_aqi, airnow_info,
          dominant_pollutant_key, call, ret>>

run == <<pc, components, conc, aqi_v, overall_aqi, airnow_info, dominant_pollutant_key>>

\* The names under which the provider reports the six pollutants.
ComponentNames == {"o3", "pm2_5", "pm10", "co", "so2", "no2"}

\* The readings a fetch may deliver, in 1/RawScale ug/m3.
RawReadings ==
  [o3    |-> {0, -500, 10799, 10800, 6304000},
   pm2_5 |-> {0, -5, 3540, 3547, 50000, 1100000},
   pm10  |-> {0, -100, 5499, 60000},
   co    |-> {0, -1, 515000, 5000000},
   so2   |-> {0, -300, 9400, 220000},
   no2   |-> {0, -1, 10100, 644140}]

NoConc == [o3_c |-> 0, pm25_c |-> 0, pm10_c |-> 0, co_c |-> 0, so2_c |-> 0, no2_c |-> 0]
NoAqi  == [k \in KeySet |-> 0]
NoInfo == [range |-> <<0, 0>>, level |-> "", color |-> ""]
NoCall == [fn |-> "none", pollutant_key |-> "", arg |-> 0]
NoRet  == [done |-> FALSE, value |-> 0, info |-> NoInfo]

Fresh ==
  /\ pc = "start"
  /\ components = << >>
  /\ conc = NoConc
  /\ aqi_v = NoAqi
  /\ overall_aqi = 0
  /\ airnow_info = NoInfo
  /\ dominant_pollutant_key = ""

Init ==
  /\ Fresh
  /\ call = NoCall
  /\ ret = NoRet

(***************************************************************************)
(* One run of the script                                                   *)
(***************************************************************************)

Offered(present, name) == IF name \in present THEN RawReadings[name] ELSE {0}

\* Line 102 with data, line 106: the provider's components; a pollutant may
\* be absent from the mapping.
Fetch ==
  /\ pc = "start"
  /\ \E present \in SUBSET ComponentNames :
       \E o3 \in Offered(present, "o3"), pm2_5 \in Offered(present, "pm2_5"),
          pm10 \in Offered(present, "pm10"), co \in Offered(present, "co"),
          so2 \in Offered(present, "so2"), no2 \in Offered(present, "no2") :
         components' = [name \in present |->
                          [o3 |-> o3, pm2_5 |-> pm2_5, pm10 |-> pm10,
                           co |-> co, so2 |-> so2, no2 |-> no2][name]]
  /\ pc' = "fetched"
  /\ UNCHANGED <<conc, aqi_v, overall_aqi, airnow_info, dominant_pollutant_key, call, ret>>

\* Lines 78-79, 105, 170-171: the fetch failed, nothing is computed.
NoData ==
  /\ pc = "start"
  /\ pc' = "waiting"
  /\ UNCHANGED <<components, conc, aqi_v, overall_aqi, airnow_info,
                 dominant_pollutant_key, call, ret>>

\* Lines 107-118.
NormalizeStep ==
  /\ pc = "fetched"
  /\ conc' = Normalize(components)
  /\ pc' = "normalized"
  /\ UNCHANGED <<components, aqi_v, overall_aqi, airnow_info, dominant_pollutant_key, call, ret>>

\* Lines 120-123.
Aggregate ==
  /\ pc = "normalized"
  /\ aqi_v' = SubIndices(conc)
  /\ overall_aqi' = max_values(aqi_v')
  /\ pc' = "aggregated"
  /\ UNCHANGED <<components, conc, airnow_info, dominant_pollutant_key, call, ret>>

\* Line 126.
Lookup ==
  /\ pc = "aggregated"
  /\ airnow_info' = get_airnow_aqi_info(overall_aqi)
  /\ pc' = "map"
  /\ UNCHANGED <<components, conc, aqi_v, overall_aqi, dominant_pollutant_key, call, ret>>

\* A restart of the script: every name of the previous run is gone.
Restart ==
  /\ pc' = "start"
  /\ components' = << >>
  /\ conc' = NoConc
  /\ aqi_v' = NoAqi
  /\ overall_aqi' = 0
  /\ airnow_info' = NoInfo
  /\ dominant_pollutant_key' = ""

\* Lines 142-145: a click on the map restarts the script before line 148.
MapClick ==
  /\ pc = "map"
  /\ Restart
  /\ UNCHANGED <<call, ret>>

\* Line 148.
Dominant ==
  /\ pc = "map"
  /\ dominant_pollutant_key' = max_key(aqi_v)
  /\ pc' = "done"
  /\ UNCHANGED <<components, conc, aqi_v, overall_aqi, airnow_info, call, ret>>

\* Lines 94-98: a new search after the script has ended runs it again.
Rerun ==
  /\ pc \in {"done", "waiting"}
  /\ Restart
  /\ UNCHANGED <<call, ret>>

Next ==
  \/ Fetch
  \/ NoData
  \/ NormalizeStep
  \/ Aggregate
  \/ Lookup
  \/ MapClick
  \/ Dominant
  \/ Rerun

Spec == Init /\ [][Next]_vars

(***************************************************************************)
(* Direct calls of calculate_pollutant_aqi                                 *)
(***************************************************************************)

\* bp_hi of the last bracket of a pollutant, in truncation steps.
Top(pollutant_key) ==
  BREAKPOINTS[pollutant_key][Len(BREAKPOINTS[pollutant_key])][2]

\* The concentrations a direct call is made with, in sub-steps.
Concentrations(pollutant_key) ==
  IF pollutant_key \in DOMAIN BREAKPOINTS
  THEN (-MaxBelow)..(Top(pollutant_key) * Sub + MaxAbove)
  ELSE (-MaxBelow)..MaxAbove

CallAqi ==
  /\ call.fn = "none"
  /\ \E pollutant_key \in KeySet \cup {"nh3"} :
       \E concentration \in Concentrations(pollutant_key) :
         call' = [fn |-> "calculate_pollutant_aqi",
                  pollutant_key |-> pollutant_key, arg |-> concentration]
  /\ ret' = NoRet
  /\ UNCHANGED run

ReturnAqi ==
  /\ call.fn = "calculate_pollutant_aqi"
  /\ ~ret.done
  /\ ret' = [done |-> TRUE, value |-> calculate_pollutant_aqi(call.pollutant_key, call.arg),
             info |-> NoInfo]
  /\ UNCHANGED <<call, run>>

NextAqi ==
  \/ CallAqi
  \/ ReturnAqi

SpecAqi == Init /\ [][NextAqi]_vars

(***************************************************************************)
(* Direct calls of get_airnow_aqi_info                                     *)
(***************************************************************************)

CallInfo ==
  /\ call.fn = "none"
  /\ \E aqi_value \in 0..MaxAqi :
       call' = [fn |-> "get_airnow_aqi_info", pollutant_key |-> "", arg |-> aqi_value]
  /\ ret' = NoRet
  /\ UNCHANGED run

ReturnInfo ==
  /\ call.fn = "get_airnow_aqi_info"
  /\ ~ret.done
  /\ ret' = [done |-> TRUE, value |-> 0, info |-> get_airnow_aqi_info(call.arg)]
  /\ UNCHANGED <<call, run>>

NextInfo ==
  \/ CallInfo
  \/ ReturnInfo

SpecInfo == Init /\ [][NextInfo]_vars

(***************************************************************************)
(* Properties                                                              *)
(***************************************************************************)

Computed  == pc \in {"aggregated", "map", "done"}
Truncated == pc \in {"normalized", "aggregated", "map", "done"}

AqiReturned  == ret.done /\ call.fn = "calculate_pollutant_aqi"
InfoReturned == ret.done /\ call.fn = "get_airnow_aqi_info"

\* The component name and the concentration of each key of aqi_v.
NameOf ==
  [o3_ppm |-> "o3", pm2_5 |-> "pm2_5", pm10 |-> "pm10",
   co_ppm |-> "co", so2_ppb |-> "so2", no2_ppb |-> "no2"]

ConcOf(c) ==
  [o3_ppm |-> c.o3_c, pm2_5 |-> c.pm25_c, pm10 |-> c.pm10_c,
   co_ppm |-> c.co_c, so2_ppb |-> c.so2_c, no2_ppb |-> c.no2_c]

\* C1: the overall AQI is the maximum of the six sub-indices that
\* calculate_pollutant_aqi returns for the observation (a missing reading
\* taken as 0): it is at least every sub-index and equal to one of them.
OverallIsMaxSubIndex ==
  Computed =>
    LET c == ConcOf(conc)
    IN  /\ \A k \in KeySet : overall_aqi >= calculate_pollutant_aqi(k, c[k])
        /\ \E k \in KeySet : overall_aqi = calculate_pollutant_aqi(k, c[k])

OverallIsMaxWitness ==
  /\ pc = "aggregated"
  /\ overall_aqi = aqi_v["pm10"]
  /\ aqi_v["o3_ppm"] < overall_aqi
  /\ aqi_v["pm2_5"] < overall_aqi
  /\ aqi_v["no2_ppb"] < overall_aqi
  /\ overall_aqi > 400

\* C2: the dominant pollutant has the overall AQI as its sub-index, and no
\* pollutant earlier in the order O3, PM2.5, PM10, CO, SO2, NO2 has it; with
\* all six sub-indices equal the dominant pollutant is O3.
DominantIsFirstMax ==
  pc = "done" =>
    /\ dominant_pollutant_key \in KeySet
    /\ aqi_v[dominant_pollutant_key] = overall_aqi
    /\ \A i, j \in 1..Len(PollutantKeys) :
         (PollutantKeys[j] = dominant_pollutant_key /\ i < j)
           => aqi_v[PollutantKeys[i]] < overall_aqi
    /\ (\A k \in KeySet : aqi_v[k] = aqi_v["o3_ppm"]) => dominant_pollutant_key = "o3_ppm"

DominantTieWitness ==
  /\ pc = "done"
  /\ dominant_pollutant_key = "pm10"
  /\ aqi_v["co_ppm"] = overall_aqi
  /\ aqi_v["no2_ppb"] = overall_aqi
  /\ aqi_v["o3_ppm"] < overall_aqi

\* C3: at the bp_low of any breakpoint row calculate_pollutant_aqi returns
\* the row's index_low, and at its bp_high the row's index_high.
BoundaryExact ==
  (AqiReturned /\ call.pollutant_key \in KeySet) =>
    \A i \in 1..Len(BREAKPOINTS[call.pollutant_key]) :
      LET row == BREAKPOINTS[call.pollutant_key][i]
      IN  /\ call.arg = row[1] * Sub => ret.value = row[3]
          /\ call.arg = row[2] * Sub => ret.value = row[4]

BoundaryWitness ==
  /\ AqiReturned
  /\ call.pollutant_key = "pm2_5"
  /\ call.arg = 354 * Sub
  /\ ret.value = 100

\* C4: calculate_pollutant_aqi is non-decreasing in the concentration: the
\* value at a concentration is at least the value one sub-step below it,
\* inside a bracket, between two brackets and above the last one.
Monotone ==
  (AqiReturned /\ call.pollutant_key \in KeySet /\ call.arg > -MaxBelow) =>
    calculate_pollutant_aqi(call.pollutant_key, call.arg - 1) <= ret.value

\* The categories whose inclusive range holds an AQI value.
Holding(aqi_value) ==
  {i \in 1..Len(AIRNOW_AQI_GUIDE) :
     AIRNOW_AQI_GUIDE[i].range[1] <= aqi_value /\ aqi_value <= AIRNOW_AQI_GUIDE[i].range[2]}

\* C5 as stated: every non-negative AQI value lies in the range of exactly
\* one category, the one get_airnow_aqi_info returns.
CategoryPartition ==
  InfoReturned =>
    /\ Cardinality(Holding(call.arg)) = 1
    /\ \A i \in Holding(call.arg) : ret.info = AIRNOW_AQI_GUIDE[i]

\* C5 amended: every AQI value from 0 to the table's top bound lies in the
\* range of exactly one category, the one returned; a value above the top
\* bound lies in no range and the last category is returned.
CategoryPartitionToTop ==
  InfoReturned =>
    LET top == AIRNOW_AQI_GUIDE[Len(AIRNOW_AQI_GUIDE)].range[2]
    IN  /\ call.arg <= top =>
             /\ Cardinality(Holding(call.arg)) = 1
             /\ \A i \in Holding(call.arg) : ret.info = AIRNOW_AQI_GUIDE[i]
        /\ call.arg > top =>
             /\ Holding(call.arg) = {}
             /\ ret.info = AIRNOW_AQI_GUIDE[Len(AIRNOW_AQI_GUIDE)]

CategoryEdgeWitness ==
  /\ InfoReturned
  /\ call.arg = 101
  /\ ret.info.level = "Unhealthy for Sensitive Groups"

\* C6: every AQI value of 301 or more, the values above 10000 included, gets
\* the last category, "Hazardous"; every value gets a category of the table.
HazardousFrom301 ==
  InfoReturned =>
    /\ \E i \in 1..Len(AIRNOW_AQI_GUIDE) : ret.info = AIRNOW_AQI_GUIDE[i]
    /\ call.arg >= 301 =>
         /\ ret.info = AIRNOW_AQI_GUIDE[Len(AIRNOW_AQI_GUIDE)]
         /\ ret.info.level = "Hazardous"

HazardousAboveTableWitness ==
  /\ InfoReturned
  /\ call.arg > 10000
  /\ ret.info.level = "Hazardous"

\* C7: a negative concentration gives sub-index 0 for every pollutant, and
\* a negative raw reading passes normalisation and ends as sub-index 0.
NegativeIsZero ==
  /\ \A k \in KeySet : \A concentration \in (-MaxBelow)..(-1) :
       calculate_pollutant_aqi(k, concentration) = 0
  /\ Computed =>
       \A k \in KeySet :
         Get(components, NameOf[k]) < 0 => (ConcOf(conc)[k] <= 0 /\ aqi_v[k] = 0)

NegativeWitness ==
  /\ pc = "done"
  /\ Get(components, "pm10") < 0
  /\ conc.pm10_c < 0
  /\ aqi_v["pm10"] = 0
  /\ Get(components, "o3") < 0
  /\ conc.o3_c < 0
  /\ aqi_v["o3_ppm"] = 0

\* The converted value of a raw reading, in truncation steps, as the
\* fraction <<numerator factor, denominator>> applied to the reading.
\* (24.45 and the molar masses 48.0, 28.01, 64.07, 46.01 count hundredths).
Conversion ==
  [o3_ppm  |-> <<2445 * 1000, 4800 * 1000 * RawScale>>,
   pm2_5   |-> <<10, RawScale>>,
   pm10    |-> <<1, RawScale>>,
   co_ppm  |-> <<2445 * 10, 2801 * 1000 * RawScale>>,
   so2_ppb |-> <<2445, 6407 * RawScale>>,
   no2_ppb |-> <<2445, 4601 * RawScale>>]

\* a * b <= c * d in exact arithmetic, for non-negative factors.
ProdLeq(a, b, c, d) == Cmp(Mul(FromInt(a), FromInt(b)), Mul(FromInt(c), FromInt(d))) <= 0

\* C8: for a non-negative raw reading the normalised concentration is the
\* largest multiple of the pollutant's step that does not exceed the
\* converted value raw * 24.45 / (molar mass * scale) (never the nearest
\* one); O3 108 gives 0.055 ppm and sub-index 51, PM2.5 35.4 gives 35.4 and
\* sub-index 100.  The doubles of lines 110-113 break it where the converted
\* value is a whole step and the rounded quotient falls just below it.
NormalizationTruncates ==
  /\ Truncated =>
       \A k \in KeySet :
         LET raw == Get(components, NameOf[k])
             c   == ConcOf(conc)[k]
             n   == c \div Sub
             f   == Conversion[k]
         IN  raw >= 0 =>
               /\ c = n * Sub
               /\ n >= 0
               /\ ProdLeq(f[2], n, raw, f[1])
               /\ ~ProdLeq(f[2], n + 1, raw, f[1])
  /\ (Truncated /\ Get(components, "o3") = 10800) => conc.o3_c = 55 * Sub
  /\ (Truncated /\ Get(components, "pm2_5") = 3540) => conc.pm25_c = 354 * Sub
  /\ (Computed /\ Get(components, "o3") = 10800) => aqi_v["o3_ppm"] = 51
  /\ (Computed /\ Get(components, "pm2_5") = 3540) => aqi_v["pm2_5"] = 100

\* C9: above the last bracket the sub-index is the rounded value of the
\* last bracket's line, at least 400 and never capped; PM2.5 = 500 with the
\* other five at 0 gives that value as overall AQI, above 400, with PM2.5
\* dominant and category "Hazardous".
ExtrapolatedAboveTop ==
  /\ Computed =>
       \A k \in KeySet :
         LET row == BREAKPOINTS[k][Len(BREAKPOINTS[k])]
             c   == ConcOf(conc)[k]
         IN  c > row[2] * Sub =>
               /\ aqi_v[k] = round((row[4] - row[3]) * (c - row[1] * Sub)
                                     + row[3] * (row[2] - row[1]) * Sub,
                                   (row[2] - row[1]) * Sub)
               /\ aqi_v[k] >= 400
  /\ (/\ pc = "done"
      /\ Get(components, "pm2_5") = 500 * RawScale
      /\ \A name \in ComponentNames \ {"pm2_5"} : Get(components, name) = 0)
       => /\ overall_aqi = aqi_v["pm2_5"]
          /\ overall_aqi = 573
          /\ overall_aqi > 400
          /\ dominant_pollutant_key = "pm2_5"
          /\ airnow_info.level = "Hazardous"

ExtrapolatedWitness ==
  /\ pc = "done"
  /\ Get(components, "pm2_5") = 500 * RawScale
  /\ \A name \in ComponentNames \ {"pm2_5"} : Get(components, name) = 0
  /\ overall_aqi > 400
  /\ dominant_pollutant_key = "pm2_5"

\* C10: a normalised concentration from 0 to the top bracket's bp_high lies
\* in exactly one bracket, and a normalised concentration gets sub-index 0
\* only when it is 0 or negative.
OneBracketPerStep ==
  (AqiReturned /\ call.pollutant_key \in KeySet /\ call.arg % Sub = 0) =>
    LET rows == BREAKPOINTS[call.pollutant_key]
    IN  /\ (call.arg >= 0 /\ call.arg <= rows[Len(rows)][2] * Sub) =>
             Cardinality({i \in 1..Len(rows) :
                            rows[i][1] * Sub <= call.arg /\ call.arg <= rows[i][2] * Sub}) = 1
        /\ ret.value = 0 => call.arg <= 0

OneBracketWitness ==
  /\ AqiReturned
  /\ call.pollutant_key = "co_ppm"
  /\ call.arg = 45 * Sub
  /\ ret.value = 51

====
